---------------------------- MODULE Spec2Model ----------------------------
(***************************************************************************)
(* A model of the two crawl engines of the website extractor:              *)
(*                                                                         *)
(*   - extract_website_recursive (tasks.py): the wave crawl.  A scheduler  *)
(*     builds one batch per depth level, dispatches one extract_single_url *)
(*     task per batch member as a Celery group, joins the group and        *)
(*     collects the linked URLs for the next wave.                         *)
(*   - scrape_website / extract_url_content (scrapes/methods.py): the      *)
(*     depth-first crawl by recursive calls that stores Website records.   *)
(*                                                                         *)
(* One behaviour of the model is one crawl: Init draws the engine (mode),  *)
(* the seed, max_depth, the recursive flag and the link graph of the site, *)
(* and for scrape_website the database that earlier runs left.             *)
(*                                                                         *)
(* The other modes of Init run one call of a smaller operation:            *)
(*   - "browser": fetch_with_selenium,                                     *)
(*   - "fetch":   fetch_page_content without selenium,                     *)
(*   - "export":  save_results_to_json (and the save_json branch of        *)
(*                scrape_website), by one or two callers.                  *)
(* The string functions extract_urls_from_markdown and                     *)
(* extract_images_from_markdown have specifications of their own, and so   *)
(* have two runs of the wave crawl that differ in include_images           *)
(* (SpecPair) and the crawl run as a task on the worker pool that also     *)
(* executes its units (SpecPool, LivePool).                                *)
(***************************************************************************)
EXTENDS Integers, Sequences, FiniteSets, TLC

VARIABLES
    mode,             \* "wave": extract_website_recursive, "rec": scrape_website
    start_url,        \* the seed URL
    max_depth,        \* the max_depth argument
    recursive,        \* the recursive argument (scrape_website only)
    site,             \* the link graph: page -> pages its content links to
    pc,               \* position of the crawl's main control flow
    error,            \* the exception the crawl raised to its caller, or "none"
    visited,          \* the visited set
    urls_to_process,  \* tasks.py: list of (url, depth) for the next batch build
    current_batch,    \* tasks.py: list of (url, depth) dispatched in this wave
    unit,             \* one record per dispatched extract_single_url task
    completed,        \* batch indexes in the order their tasks completed
    results,          \* tasks.py: the results list
    wave,             \* number of waves (groups) dispatched so far
    log,              \* history: one record per dispatched unit / fetch call
    stack,            \* methods.py: call stack of extract_url_content
    websites,         \* methods.py: URLs with a Website record of this scrape
    failed,           \* history: URLs whose extract_url_content raised before storing
    link_failed,      \* history: URLs whose extract_url_content raised after storing
    followed,         \* history: <<parent, child>> for every recursive call made
    scrape_rows,      \* the rows of the Scrape table
    website_rows,     \* the rows of the Website table
    scrape,           \* methods.py: id of the Scrape row of this run, 0 before it
    driver,           \* fetch_with_selenium: the browser instance
    files,            \* the export directory: name index -> who wrote the file
    exporter,         \* one record per caller of save_results_to_json
    arg,              \* the argument of the function a function mode applies
    out,              \* what that function returned
    queue,            \* the broker's queue of tasks, oldest first
    worker,           \* the task each worker process of the pool is executing
    crawl             \* one record per extract_website_recursive task

vars == <<mode, start_url, max_depth, recursive, site, pc, error, visited,
          urls_to_process, current_batch, unit, completed, results, wave, log,
          stack, websites, failed, link_failed, followed, scrape_rows, website_rows, scrape,
          driver, files, exporter, arg, out, queue, worker, crawl>>

inputs == <<mode, start_url, max_depth, recursive, site>>

waveVars == <<urls_to_process, current_batch, unit, completed, results, wave>>

recVars == <<stack, websites, failed, link_failed, followed>>

dbVars == <<scrape_rows, website_rows, scrape>>

crawlVars == <<pc, error, visited, waveVars, log, recVars, dbVars>>

auxVars == <<driver, files, exporter, arg, out>>

poolVars == <<queue, worker, crawl>>

---------------------------------------------------------------------------
(* Bounds of the model. *)

\* number of pages of the site
NumPages == 4

\* max_depth is drawn from 0..MaxDepthBound
MaxDepthBound == 2

\* granularity of the clock that runs down a retry countdown
TickStep == 30

\* The numbered names <name>_1.json .. <name>_MaxFiles.json an export can take.
MaxFiles == 4

\* The number of fragments in a page given to extract_urls_from_markdown.
MaxLinks == 3

\* The number of fragments in a page given to extract_images_from_markdown.
MaxImages == 3

---------------------------------------------------------------------------
(* Program constants. *)

\* @shared_task(bind=True, max_retries=3, ...)
max_retries == 3

\* @shared_task(..., default_retry_delay=60)
default_retry_delay == 60

---------------------------------------------------------------------------
(* URLs and the site. *)

Pages == 1..NumPages

\* A URL is its scheme and the page it names.
Url(p) == [scheme |-> "https", page |-> p]

PageUrls == {Url(p) : p \in Pages}

\* A seed that does not begin with http:// or https://
BadSeed == [scheme |-> "ftp", page |-> 1]

Seeds == PageUrls \cup {BadSeed}

\* url.startswith(("http://", "https://"))
SupportedScheme(url) == url.scheme \in {"http", "https"}

\* The link graphs crawled.  Each is a function from pages to sets of pages.
Clip(S) == S \cap Pages

\* 1 -> 2 -> ... -> NumPages
Chain == [p \in Pages |-> Clip({p + 1})]

\* 1 -> 2 -> ... -> NumPages -> 1
Ring == [p \in Pages |-> {(p % NumPages) + 1}]

\* A links to itself and to B, B links back to A
TwoCycle == [p \in Pages |-> IF p = 1 THEN Clip({1, 2}) ELSE IF p = 2 THEN {1} ELSE {}]

\* 1 links to 2 and 3, both link to 4 (and to each other), 4 links back to 1
Diamond == [p \in Pages |-> IF p = 1 THEN Clip({2, 3})
                            ELSE IF p = 2 THEN Clip({3, 4})
                            ELSE IF p = 3 THEN Clip({2, 4})
                            ELSE IF p = 4 THEN {1} ELSE {}]

\* 3 is one link from the seed and also two links from it via 2
Shortcut == [p \in Pages |-> IF p = 1 THEN Clip({2, 3})
                             ELSE IF p = 2 THEN Clip({3})
                             ELSE IF p = 3 THEN Clip({4})
                             ELSE Clip({p + 1})]

Sites == {Chain, Ring, TwoCycle, Diamond, Shortcut}

\* extract_urls_from_markdown(markdown_content, url): the same-domain links of
\* the page fetched from url, as a set.
linked_urls(url) == {Url(q) : q \in site[url.page]}

\* The lists a Python iteration over the set S can produce.
Orders(S) == {s \in [1..Cardinality(S) -> S] : \A i, j \in DOMAIN s : i # j => s[i] # s[j]}

---------------------------------------------------------------------------
(* extract_website_recursive: the batch build, tasks.py lines 248-252. *)

\* Mutant of Skip: the membership test is dropped.
SkipDepthOnly(url, depth, vis) == depth > max_depth

\* if url in visited or depth > max_depth: continue
Skip(url, depth, vis) == url \in vis \/ depth > max_depth

\* Mutant of mark_visited: the URL is not recorded.
mark_visited_never(vis, url) == vis

\* visited.add(url)
mark_visited(vis, url) == vis \cup {url}

RECURSIVE build_batch(_, _, _)
build_batch(todo, vis, batch) ==
    IF todo = <<>> THEN [visited |-> vis, current_batch |-> batch]
    ELSE LET url == Head(todo)[1]
             depth == Head(todo)[2]
         IN IF Skip(url, depth, vis)
            THEN build_batch(Tail(todo), vis, batch)
            ELSE build_batch(Tail(todo), mark_visited(vis, url),
                             Append(batch, <<url, depth>>))

\* A freshly dispatched extract_single_url task.
NewUnit == [state |-> "PENDING", retries |-> 0, countdown |-> 0, waited |-> 0,
            lastwait |-> 0, attempts |-> 0]

\* One pass of the while loop up to the dispatch of the group
\* (lines 243-267), or the exit from the loop (lines 243, 254-255, 288).
BuildBatch ==
    /\ mode = "wave"
    /\ pc = "loop"
    /\ IF urls_to_process = <<>>
       THEN /\ pc' = "done"
            /\ UNCHANGED <<visited, waveVars, log>>
       ELSE LET b == build_batch(urls_to_process, visited, <<>>)
                n == Len(b.current_batch)
            IN /\ visited' = b.visited
               /\ current_batch' = b.current_batch
               /\ IF n = 0
                  THEN /\ pc' = "done"
                       /\ UNCHANGED <<unit, completed, wave, log>>
                  ELSE /\ pc' = "get"
                       /\ unit' = [i \in 1..n |-> NewUnit]
                       /\ completed' = <<>>
                       /\ wave' = wave + 1
                       /\ log' = log \o [i \in 1..n |->
                                    [url |-> b.current_batch[i][1],
                                     depth |-> b.current_batch[i][2],
                                     wave |-> wave]]
               /\ UNCHANGED <<urls_to_process, results>>
    /\ UNCHANGED <<inputs, poolVars, error, recVars>>
    /\ UNCHANGED <<dbVars, auxVars>>

---------------------------------------------------------------------------
(* extract_single_url: one Celery task per batch member, tasks.py 183-228. *)

\* fetch_page_content(url): requests.get raises for a URL that is not
\* http(s); any other fetch may succeed or fail.
CanSucceed(url) == SupportedScheme(url)

\* Mutant of CanRetry: one retry too many.
CanRetryOffByOne(retries) == retries <= max_retries

\* self.retry(exc=exc) with max_retries=3: Celery re-queues the task while
\* request.retries + 1 <= max_retries and re-raises exc otherwise.
CanRetry(retries) == retries + 1 <= max_retries

\* the countdown self.retry gives the re-queued task
retry_countdown == default_retry_delay

\* A task is picked up by a worker when it is new or its countdown has run down.
Runnable(u) ==
    \/ u.state = "PENDING"
    \/ u.state = "RETRY" /\ u.waited >= u.countdown

\* One execution of extract_single_url for batch member i: it returns its
\* dict (SUCCESS), or raises and is re-queued (RETRY), or raises for good
\* (FAILURE).  The tasks of a group run on their own, whatever the scheduler does.
RunUnit(i) ==
    /\ mode = "wave"
    /\ pc \in {"get", "raised"}
    /\ i \in DOMAIN unit
    /\ Runnable(unit[i])
    /\ \E ok \in BOOLEAN :
         /\ ok => CanSucceed(current_batch[i][1])
         /\ LET u == unit[i]
                ran == [u EXCEPT !.attempts = u.attempts + 1,
                                 !.lastwait = u.waited]
            IN IF ok
               THEN /\ unit' = [unit EXCEPT ![i] = [ran EXCEPT !.state = "SUCCESS"]]
                    /\ completed' = Append(completed, i)
               ELSE IF CanRetry(u.retries)
               THEN /\ unit' = [unit EXCEPT ![i] = [ran EXCEPT !.state = "RETRY",
                                                              !.retries = u.retries + 1,
                                                              !.countdown = retry_countdown,
                                                              !.waited = 0]]
                    /\ UNCHANGED completed
               ELSE /\ unit' = [unit EXCEPT ![i] = [ran EXCEPT !.state = "FAILURE"]]
                    /\ completed' = Append(completed, i)
    /\ UNCHANGED <<inputs, poolVars, pc, error, visited, urls_to_process, current_batch,
                   results, wave, log, recVars>>
    /\ UNCHANGED <<dbVars, auxVars>>

\* Time passes while some re-queued task waits for its countdown.
Tick ==
    /\ mode = "wave"
    /\ \E i \in DOMAIN unit : unit[i].state = "RETRY" /\ unit[i].waited < unit[i].countdown
    /\ unit' = [i \in DOMAIN unit |->
                  IF unit[i].state = "RETRY" /\ unit[i].waited < unit[i].countdown
                  THEN [unit[i] EXCEPT !.waited = unit[i].waited + TickStep]
                  ELSE unit[i]]
    /\ UNCHANGED <<inputs, poolVars, pc, error, visited, urls_to_process, current_batch,
                   completed, results, wave, log, recVars>>
    /\ UNCHANGED <<dbVars, auxVars>>

---------------------------------------------------------------------------
(* extract_website_recursive: the join and the collection, lines 267-286. *)

\* Mutant of GroupReady: the join returns on the first result.
GroupReadyAny(u) == \E i \in DOMAIN u : u[i].state = "SUCCESS"

\* job.apply_async().get() returns once every task of the group has returned.
GroupReady(u) == \A i \in DOMAIN u : u[i].state = "SUCCESS"

\* ... and re-raises the exception of a task that failed for good.
GroupFailed(u) == \E i \in DOMAIN u : u[i].state = "FAILURE"

\* Mutant of collect_order: the results are taken as the tasks complete.
collect_order_completion(n, done) == done

\* zip(current_batch, batch_results): the results are taken in batch order,
\* whatever the order the tasks completed in.
collect_order(n, done) == [k \in 1..n |-> k]

\* the dict appended to results for a batch member
page_result(url) == [url |-> url, content |-> url.page]

\* Mutant of append_results: the new results are put in front.
prepend_results(res, new) == new \o res

\* results.append(...)
append_results(res, new) == res \o new

\* Mutant of ShouldExpand: the last level that may be expanded is not.
ShouldExpandEarly(depth) == depth + 1 < max_depth

\* if depth < max_depth:
ShouldExpand(depth) == depth < max_depth

\* Mutant of child_depth: the depth is not incremented.
child_depth_same(depth) == depth

\* Mutant of child_depth: the depth is incremented twice.
child_depth_double(depth) == depth + 2

\* next_batch.append((linked_url, depth + 1))
child_depth(depth) == depth + 1

\* for linked_url in result["linked_urls"]: if linked_url not in visited: ...
link_entries(links, depth, vis) ==
    LET NotVisited(l) == l \notin vis
        keep == SelectSeq(links, NotVisited)
    IN [j \in 1..Len(keep) |-> <<keep[j], child_depth(depth)>>]

\* The values next_batch can have after the members ord[k], ord[k+1], ... have
\* been collected: result["linked_urls"] is list(set), so the linked URLs of
\* each page come in an arbitrary order.
RECURSIVE next_batch(_, _, _)
next_batch(batch, ord, k) ==
    IF k > Len(ord) THEN {<<>>}
    ELSE LET url == batch[ord[k]][1]
             depth == batch[ord[k]][2]
             mine == IF ShouldExpand(depth)
                     THEN {link_entries(links, depth, visited) :
                             links \in Orders(linked_urls(url))}
                     ELSE {<<>>}
         IN {head \o tail : head \in mine, tail \in next_batch(batch, ord, k + 1)}

\* The group has returned: lines 270-286.  (The crawl is modelled as run where
\* get() is allowed to block, as when the function is called directly.)
Join ==
    /\ mode = "wave"
    /\ pc = "get"
    /\ GroupReady(unit)
    /\ LET ord == collect_order(Len(current_batch), completed)
       IN /\ results' = append_results(results,
                           [k \in 1..Len(ord) |-> page_result(current_batch[ord[k]][1])])
          /\ urls_to_process' \in next_batch(current_batch, ord, 1)
    /\ pc' = "loop"
    /\ UNCHANGED <<inputs, poolVars, error, visited, current_batch, unit, completed, wave,
                   log, recVars>>
    /\ UNCHANGED <<dbVars, auxVars>>

\* A task of the group failed for good: get() raises its exception, which
\* nothing in extract_website_recursive catches.
JoinRaise ==
    /\ mode = "wave"
    /\ pc = "get"
    /\ GroupFailed(unit)
    /\ pc' = "raised"
    /\ error' = "TaskError"
    /\ UNCHANGED <<inputs, poolVars, visited, waveVars, log, recVars>>
    /\ UNCHANGED <<dbVars, auxVars>>

---------------------------------------------------------------------------
(* The Scrape and Website tables, scrapes/models.py 6-17, and the two
   update_or_create calls of scrapes/methods.py.  A row carries its primary
   key and the run that created it and last saved it (BaseModel, core/models.py
   11-13): run 0 stands for the earlier runs, run 1 for the run modelled. *)

\* A primary key no row of the table has (make_object_id).
new_id(rows) ==
    LET ids == {r.id : r \in rows} IN
    IF ids = {} THEN 1 ELSE 1 + CHOOSE i \in ids : \A j \in ids : i >= j

ScrapeRow(id, url, run) == [id |-> id, url |-> url, created_on |-> run]

WebsiteRow(id, url, sc, text, run) ==
    [id |-> id, url |-> url, scrape |-> sc, content |-> text, images |-> text,
     created_on |-> run, updated_on |-> run]

\* The databases that earlier runs of scrape_website can have left: none; a
\* run of the same seed that stored the seed and page 2; a run of another
\* seed (page 2) that stored this seed's page as one of its pages.
PriorNames == {"empty", "same_seed", "other_seed"}

PriorDatabase(name, seed) ==
    IF name = "same_seed"
    THEN [scrapes  |-> {ScrapeRow(1, seed, 0)},
          websites |-> {WebsiteRow(1, seed, 1, "old", 0)} \cup
                       (IF seed = Url(2) THEN {} ELSE {WebsiteRow(2, Url(2), 1, "old", 0)})]
    ELSE IF name = "other_seed" /\ seed # Url(2)
    THEN [scrapes  |-> {ScrapeRow(1, Url(2), 0)},
          websites |-> {WebsiteRow(1, Url(2), 1, "old", 0), WebsiteRow(2, seed, 1, "old", 0)}]
    ELSE [scrapes |-> {}, websites |-> {}]

\* The rows a lookup (url=url) finds in the Scrape table.
scrape_matches(rows, url) == {r \in rows : r.url = url}

\* Scrape.objects.update_or_create(url=url), line 289: the table afterwards
scrape_upsert(rows, url) ==
    IF scrape_matches(rows, url) # {} THEN rows
    ELSE rows \cup {ScrapeRow(new_id(rows), url, 1)}

\* The rows a lookup (url=url, scrape=scrape) finds in the Website table.
website_matches(rows, url, sc) == {r \in rows : r.url = url /\ r.scrape = sc}

\* Mutant of website_upsert: a row is created whether or not one is found.
website_always_create(rows, url, sc) ==
    rows \cup {WebsiteRow(new_id(rows), url, sc, "new", 1)}

\* Website.objects.update_or_create(url=url, scrape=scrape, defaults={...}),
\* lines 235-242: the row found has its content and images replaced, and a
\* row is created when none is found
website_upsert(rows, url, sc) ==
    IF website_matches(rows, url, sc) # {}
    THEN {IF r \in website_matches(rows, url, sc)
          THEN [r EXCEPT !.content = "new", !.images = "new", !.updated_on = 1]
          ELSE r : r \in rows}
    ELSE rows \cup {WebsiteRow(new_id(rows), url, sc, "new", 1)}

---------------------------------------------------------------------------
(* scrape_website and extract_url_content, scrapes/methods.py 185-334. *)

\* A call of extract_url_content that has not run yet.
NewFrame(url, depth) == [url |-> url, depth |-> depth, stage |-> "enter", todo |-> {}]

Top(stk) == stk[Len(stk)]

Pop(stk) == SubSeq(stk, 1, Len(stk) - 1)

\* What the try block of one call can raise, and where: before the Website
\* record is written (fetch, parse and conversion, update_or_create), or after
\* it (extract_urls_from_markdown, e.g. urlparse on a malformed link).
RaisedBeforeStore == {"FetchError", "TransformError", "StoreError"}

RaisedAfterStore == {"LinkError"}

\* Mutant of caught: only the network errors are caught.
caught_requests_only(exc) == exc = "FetchError"

\* except Exception as e: print(...); return None
caught(exc) == TRUE

\* Mutant of ShouldRecurse: the comparison is off by one.
ShouldRecurseInclusive(depth) == recursive /\ depth <= max_depth

\* Mutant of ShouldRecurse: the recursive flag is not consulted.
ShouldRecurseDepthOnly(depth) == depth < max_depth

\* if recursive and depth < max_depth:
ShouldRecurse(depth) == recursive /\ depth < max_depth

\* depth=depth + 1
call_depth(depth) == depth + 1

\* if url in visited: return None
already_visited(url, vis) == url \in vis

\* scrape_website up to its call of extract_url_content (lines 283-302).
ScrapeStart ==
    /\ mode = "rec"
    /\ pc = "start"
    /\ pc' = "extract"
    /\ visited' = {}
    /\ stack' = <<NewFrame(start_url, 0)>>
    /\ scrape_rows' = scrape_upsert(scrape_rows, start_url)
    /\ scrape' = (CHOOSE r \in scrape_matches(scrape_rows', start_url) : TRUE).id
    /\ UNCHANGED <<inputs, poolVars, error, waveVars, log, websites, failed, link_failed, followed>>
    /\ UNCHANGED <<website_rows, auxVars>>

\* The exception exc leaves the try block of the top call: the handler
\* returns None to the caller, or the exception unwinds the whole crawl.
Raise(exc) ==
    IF caught(exc)
    THEN /\ stack' = Pop(stack)
         /\ UNCHANGED <<pc, error>>
    ELSE /\ stack' = <<>>
         /\ pc' = "raised"
         /\ error' = exc

\* A call of extract_url_content from its entry to the start of its loop over
\* the linked URLs, or to its return (lines 196-248, 262-266).
ExtractEnter ==
    /\ mode = "rec"
    /\ pc = "extract"
    /\ stack # <<>>
    /\ Top(stack).stage = "enter"
    /\ LET f == Top(stack)
       IN IF already_visited(f.url, visited)
          THEN /\ stack' = Pop(stack)
               /\ UNCHANGED <<pc, error, visited, log, websites, failed, link_failed,
                               website_rows>>
          ELSE /\ visited' = visited \cup {f.url}
               /\ IF ~SupportedScheme(f.url)
                  THEN /\ stack' = Pop(stack)
                       /\ UNCHANGED <<pc, error, log, websites, failed, link_failed,
                                       website_rows>>
                  ELSE /\ log' = Append(log, [url |-> f.url, depth |-> f.depth, wave |-> 0])
                       /\ \/ /\ CanSucceed(f.url)
                             /\ websites' = websites \cup {f.url}
                             /\ website_rows' = website_upsert(website_rows, f.url, scrape)
                             /\ stack' = IF ShouldRecurse(f.depth)
                                         THEN [stack EXCEPT ![Len(stack)] =
                                                 [f EXCEPT !.stage = "loop",
                                                           !.todo = linked_urls(f.url)]]
                                         ELSE Pop(stack)
                             /\ UNCHANGED <<pc, error, failed, link_failed>>
                          \/ /\ \E exc \in RaisedBeforeStore : Raise(exc)
                             /\ failed' = failed \cup {f.url}
                             /\ UNCHANGED <<websites, website_rows, link_failed>>
                          \/ /\ ShouldRecurse(f.depth)
                             /\ \E exc \in RaisedAfterStore : Raise(exc)
                             /\ websites' = websites \cup {f.url}
                             /\ website_rows' = website_upsert(website_rows, f.url, scrape)
                             /\ link_failed' = link_failed \cup {f.url}
                             /\ UNCHANGED failed
    /\ UNCHANGED <<inputs, poolVars, waveVars, followed>>
    /\ UNCHANGED <<scrape_rows, scrape, auxVars>>

\* One iteration of "for linked_url in linked_urls" (lines 249-260), the set
\* being iterated in an arbitrary order, or the return after the loop (262).
ExtractLoop ==
    /\ mode = "rec"
    /\ pc = "extract"
    /\ stack # <<>>
    /\ Top(stack).stage = "loop"
    /\ LET f == Top(stack)
       IN IF f.todo = {}
          THEN /\ stack' = Pop(stack)
               /\ UNCHANGED followed
          ELSE \E linked_url \in f.todo :
                 LET rest == [stack EXCEPT ![Len(stack)] =
                                [f EXCEPT !.todo = f.todo \ {linked_url}]]
                 IN IF linked_url \notin visited
                    THEN /\ stack' = Append(rest, NewFrame(linked_url, call_depth(f.depth)))
                         /\ followed' = followed \cup {<<f.url, linked_url>>}
                    ELSE /\ stack' = rest
                         /\ UNCHANGED followed
    /\ UNCHANGED <<inputs, poolVars, pc, error, visited, waveVars, log, websites, failed,
                   link_failed>>
    /\ UNCHANGED <<dbVars, auxVars>>

---------------------------------------------------------------------------
(* fetch_with_selenium, tasks.py 138-167 (and scrapes/methods.py 140-169). *)

\* Mutant of finally_quit: the browser is quit on the normal return only.
quit_on_return_only(drv, outcome) ==
    IF outcome = "return"
    THEN [state |-> "quit", quits |-> drv.quits + 1]
    ELSE drv

\* finally: driver.quit(), whether the try block returned or raised
finally_quit(drv, outcome) == [state |-> "quit", quits |-> drv.quits + 1]

\* The try block is left by the exception exc: finally, then the exception
\* reaches the caller.
SeleniumRaise(exc) ==
    /\ driver' = finally_quit(driver, "raise")
    /\ pc' = "raised"
    /\ error' = exc
    /\ UNCHANGED out

\* Lines 140-151: the options, the driver binary and the browser launch.  When
\* the launch raises there is no browser and the try block is not entered.
SeleniumLaunch ==
    /\ mode = "browser"
    /\ pc = "launch"
    /\ \/ /\ driver' = [driver EXCEPT !.state = "running"]
          /\ pc' = "get"
          /\ UNCHANGED error
       \/ /\ pc' = "raised"
          /\ error' = "WebDriverException"
          /\ UNCHANGED driver
    /\ UNCHANGED <<inputs, poolVars, visited, waveVars, log, recVars, dbVars,
                   files, exporter, arg, out>>

\* driver.get(url), line 154
SeleniumGet ==
    /\ mode = "browser"
    /\ pc = "get"
    /\ \/ /\ pc' = "wait"
          /\ UNCHANGED <<driver, error, out>>
       \/ SeleniumRaise("WebDriverException")
    /\ UNCHANGED <<inputs, poolVars, visited, waveVars, log, recVars, dbVars,
                   files, exporter, arg>>

\* WebDriverWait(driver, 10).until(...), lines 157-159
SeleniumWait ==
    /\ mode = "browser"
    /\ pc = "wait"
    /\ \/ /\ pc' = "sleep"
          /\ UNCHANGED <<driver, error, out>>
       \/ SeleniumRaise("TimeoutException")
    /\ UNCHANGED <<inputs, poolVars, visited, waveVars, log, recVars, dbVars,
                   files, exporter, arg>>

\* time.sleep(5), line 162
SeleniumSleep ==
    /\ mode = "browser"
    /\ pc = "sleep"
    /\ pc' = "source"
    /\ UNCHANGED <<inputs, poolVars, error, visited, waveVars, log, recVars, dbVars, auxVars>>

\* html = driver.page_source; return html, lines 164-167
SeleniumSource ==
    /\ mode = "browser"
    /\ pc = "source"
    /\ \/ /\ driver' = finally_quit(driver, "return")
          /\ pc' = "returned"
          /\ out' = "html"
          /\ UNCHANGED error
       \/ SeleniumRaise("WebDriverException")
    /\ UNCHANGED <<inputs, poolVars, visited, waveVars, log, recVars, dbVars,
                   files, exporter, arg>>

---------------------------------------------------------------------------
(* fetch_page_content without selenium, tasks.py 175-180 (and
   scrapes/methods.py 177-182).  arg is what the request meets: a transport
   failure, or the final response with its status code. *)

\* The status codes a final response can carry (the interim 100 Continue is
\* consumed by the HTTP client).
Statuses == 101..599

Encounters ==
    {[kind |-> "failure", status |-> 0]} \cup
    {[kind |-> "response", status |-> code] : code \in Statuses}

\* Mutant of raise_for_status: only the server errors raise.
raise_for_status_server_only(status) == 500 <= status /\ status < 600

\* response.raise_for_status(): HTTPError for a client or server error status
raise_for_status(status) == 400 <= status /\ status < 600

\* response = requests.get(url, headers=headers, timeout=30, ...), line 178
FetchRequest ==
    /\ mode = "fetch"
    /\ pc = "request"
    /\ IF arg.kind = "failure"
       THEN /\ pc' = "raised"
            /\ error' = "ConnectionError"
       ELSE /\ pc' = "status"
            /\ UNCHANGED error
    /\ UNCHANGED <<inputs, poolVars, visited, waveVars, log, recVars, dbVars, auxVars>>

\* response.raise_for_status(); return response.text, lines 179-180
FetchStatus ==
    /\ mode = "fetch"
    /\ pc = "status"
    /\ IF raise_for_status(arg.status)
       THEN /\ pc' = "raised"
            /\ error' = "HTTPError"
            /\ UNCHANGED out
       ELSE /\ pc' = "returned"
            /\ out' = "markup"
            /\ UNCHANGED error
    /\ UNCHANGED <<inputs, poolVars, visited, waveVars, log, recVars, dbVars,
                   driver, files, exporter, arg>>

---------------------------------------------------------------------------
(* save_results_to_json, tasks.py 291-311 (and the save_json branch of
   scrape_website, scrapes/methods.py 314-327).  The names a call can take
   are numbered: 0 is <name>.json and k > 0 is <name>_k.json.  A file is
   "none" when it does not exist, "old" when it was there before any call,
   and otherwise holds the caller that wrote it. *)

Names == 0..MaxFiles

Callers == {"first", "second"}

\* The files found before the first call; two names are always free, as on a
\* file system that has room for the two exports.
OldFiles == {fs \in [Names -> {"none", "old"}] :
                \A k \in Names : k > MaxFiles - 2 => fs[k] = "none"}

IdleExporter ==
    [pc |-> "idle", counter |-> 1, path |-> 0, before |-> <<>>,
     clobbered |-> "none", overlapped |-> FALSE]

Active(c) == exporter[c].pc \in {"check", "write"}

\* Mutant of path_exists: no name is ever found to exist.
path_exists_never(fs, k) == FALSE

\* output_path.exists()
path_exists(fs, k) == fs[k] # "none"

\* filename = sanitize_filename(url) + ".json"; counter = 1, lines 296-299
ExportStart(c) ==
    /\ mode = "export"
    /\ exporter[c].pc = "idle"
    /\ LET others == {d \in Callers \ {c} : Active(d)} IN
         exporter' = [d \in Callers |->
            IF d = c
            THEN [exporter[c] EXCEPT !.pc = "check", !.path = 0, !.counter = 1,
                                     !.before = files,
                                     !.overlapped = (others # {})]
            ELSE IF d \in others
                 THEN [exporter[d] EXCEPT !.overlapped = TRUE]
                 ELSE exporter[d]]
    /\ UNCHANGED <<inputs, poolVars, crawlVars, driver, files, arg, out>>

\* One test of the condition of while output_path.exists(), lines 301-305
ExportCheck(c) ==
    /\ mode = "export"
    /\ exporter[c].pc = "check"
    /\ IF path_exists(files, exporter[c].path)
       THEN /\ exporter[c].counter <= MaxFiles
            /\ exporter' = [exporter EXCEPT ![c].path = exporter[c].counter,
                                            ![c].counter = exporter[c].counter + 1]
       ELSE exporter' = [exporter EXCEPT ![c].pc = "write"]
    /\ UNCHANGED <<inputs, poolVars, crawlVars, driver, files, arg, out>>

\* output_path.write_text(...); return str(output_path), lines 307-311
ExportWrite(c) ==
    /\ mode = "export"
    /\ exporter[c].pc = "write"
    /\ files' = [files EXCEPT ![exporter[c].path] = c]
    /\ exporter' = [exporter EXCEPT ![c].pc = "done",
                                    ![c].clobbered = files[exporter[c].path]]
    /\ UNCHANGED <<inputs, poolVars, crawlVars, driver, arg, out>>

\* Website.objects.filter(scrape=scrape), lines 305 and 309
websites_of(rows, sc) == {r \in rows : r.scrape = sc}

\* {"url": w.url, "content": w.content, "images": w.images}, lines 310-312
export_record(w) == [url |-> w.url, content |-> w.content, images |-> w.images]

\* The name the loop of lines 314-324 ends with: the first that does not exist.
output_path(fs) ==
    CHOOSE k \in Names : ~path_exists(fs, k) /\ \A j \in 0..(k - 1) : path_exists(fs, j)

\* extract_url_content has returned: scrape_website counts the Website rows
\* of its Scrape, exports them when save_json is set, and returns (304-334).
ScrapeReturn ==
    /\ mode = "rec"
    /\ pc = "extract"
    /\ stack = <<>>
    /\ pc' = "returned"
    /\ \E save_json \in BOOLEAN :
          /\ out' = [website_count |-> Cardinality(websites_of(website_rows, scrape)),
                     save_json |-> save_json,
                     results |-> IF save_json
                                 THEN {export_record(w) : w \in websites_of(website_rows, scrape)}
                                 ELSE {}]
          /\ files' = IF save_json
                      THEN [files EXCEPT ![output_path(files)] = "first"]
                      ELSE files
    /\ UNCHANGED <<inputs, poolVars, error, visited, waveVars, log, recVars>>
    /\ UNCHANGED <<dbVars, driver, exporter, arg>>

---------------------------------------------------------------------------
(* Strings, as the string functions of tasks.py use them.  A character is a
   string of length 1 and indices run from 1. *)

At(s, i) == IF 1 <= i /\ i <= Len(s) THEN SubSeq(s, i, i) ELSE ""

From(s, i) == SubSeq(s, i, Len(s))

startswith(s, prefix) ==
    Len(prefix) <= Len(s) /\ SubSeq(s, 1, Len(prefix)) = prefix

endswith(s, suffix) ==
    Len(suffix) <= Len(s) /\ SubSeq(s, Len(s) - Len(suffix) + 1, Len(s)) = suffix

\* s[i:].startswith(sub)
MatchAt(s, sub, i) ==
    i + Len(sub) - 1 <= Len(s) /\ SubSeq(s, i, i + Len(sub) - 1) = sub

\* The least element of a set of indices, 0 when it is empty.
Least(hits) == IF hits = {} THEN 0 ELSE CHOOSE i \in hits : \A j \in hits : i <= j

\* The least index at or after from whose character is in chars, 0 if none.
FirstOf(s, chars, from) == Least({i \in from..Len(s) : At(s, i) \in chars})

\* The greatest index whose character is in chars, 0 if none.
LastOf(s, chars) ==
    LET hits == {i \in 1..Len(s) : At(s, i) \in chars} IN
    IF hits = {} THEN 0 ELSE CHOOSE i \in hits : \A j \in hits : i >= j

\* s.find(sub, from), 0 if none
find(s, sub, from) == Least({i \in from..(Len(s) + 1) : MatchAt(s, sub, i)})

\* sub in s
contains(sub, s) == \E i \in 1..(Len(s) + 1) : MatchAt(s, sub, i)

\* s.split(sep)[0]
split_head(s, sep) ==
    LET i == find(s, sep, 1) IN IF i = 0 THEN s ELSE SubSeq(s, 1, i - 1)

\* s.rsplit("/", 1)[0]
rsplit_head(s, sep) ==
    LET i == LastOf(s, {sep}) IN IF i = 0 THEN s ELSE SubSeq(s, 1, i - 1)

Upper == "ABCDEFGHIJKLMNOPQRSTUVWXYZ"

Lower == "abcdefghijklmnopqrstuvwxyz"

Digits == "0123456789"

Chars(s) == {At(s, i) : i \in 1..Len(s)}

Letters == Chars(Upper) \cup Chars(Lower)

\* the characters of a scheme name
SchemeChars == Letters \cup Chars(Digits) \cup {"+", "-", "."}

LowerOf == [c \in Chars(Upper) |-> At(Lower, find(Upper, c, 1))]

lower_char(c) == IF c \in DOMAIN LowerOf THEN LowerOf[c] ELSE c

RECURSIVE lower(_)
\* s.lower(), the string being lower-cased half by half
lower(s) ==
    IF Len(s) <= 1 THEN lower_char(s)
    ELSE lower(SubSeq(s, 1, Len(s) \div 2)) \o lower(From(s, Len(s) \div 2 + 1))

RECURSIVE replace(_, _, _)
\* s.replace(old, new), old not empty: the occurrences are taken from the left
\* and do not overlap
replace(s, old, new) ==
    LET i == find(s, old, 1) IN
    IF i = 0
    THEN s
    ELSE SubSeq(s, 1, i - 1) \o new \o replace(From(s, i + Len(old)), old, new)

\* the characters \s of a pattern matches, and str.strip() removes
Whitespace == {" ", "\t", "\n", "\r", "\f"}

\* s.lstrip()
lstrip(s) ==
    LET i == Least({j \in 1..Len(s) : At(s, j) \notin Whitespace}) IN
    IF i = 0 THEN "" ELSE From(s, i)

\* s.rstrip()
rstrip(s) ==
    LET keep == {j \in 1..Len(s) : At(s, j) \notin Whitespace} IN
    IF keep = {} THEN "" ELSE SubSeq(s, 1, CHOOSE j \in keep : \A k \in keep : j >= k)

\* s.strip()
strip(s) == lstrip(rstrip(s))

\* urllib.parse.urlparse(url): the scheme (lower-cased) when the text before
\* the first ":" is a scheme name, the network location between "//" and the
\* next "/", "?" or "#", and the path up to "?" or "#".
urlparse(url) ==
    LET colon   == find(url, ":", 1)
        name    == SubSeq(url, 1, colon - 1)
        has_scheme == /\ colon > 1
                   /\ At(name, 1) \in Letters
                   /\ Chars(name) \subseteq SchemeChars
        rest    == IF has_scheme THEN From(url, colon + 1) ELSE url
        has_netloc == startswith(rest, "//")
        stop    == FirstOf(rest, {"/", "?", "#"}, 3)
        netloc  == IF ~has_netloc THEN ""
                   ELSE IF stop = 0 THEN From(rest, 3) ELSE SubSeq(rest, 3, stop - 1)
        tail    == IF has_netloc THEN From(rest, 3 + Len(netloc)) ELSE rest
        cut     == FirstOf(tail, {"?", "#"}, 1)
    IN  [scheme |-> IF has_scheme THEN lower(name) ELSE "",
         netloc |-> netloc,
         path   |-> IF cut = 0 THEN tail ELSE SubSeq(tail, 1, cut - 1)]

---------------------------------------------------------------------------
(* extract_urls_from_markdown, tasks.py 76-135 (and scrapes/methods.py
   78-137). *)

image_extensions ==
    {".jpg", ".jpeg", ".png", ".gif", ".webp", ".svg", ".bmp", ".ico", ".tiff", ".avif"}

\* Mutant of is_image_url: the URL is not lower-cased.
is_image_url_as_typed(url) ==
    \E ext \in image_extensions : endswith(split_head(url, "?"), ext)

\* url.lower().split("?")[0].endswith(image_extensions)
is_image_url(url) ==
    \E ext \in image_extensions : endswith(split_head(lower(url), "?"), ext)

\* Whether r"\[([^\]]+)\]\(([^)]+)\)" matches at index i of s: "[", the
\* first "]" at least one character further, "(" next to it, and the first
\* ")" at least one character further.
LinkClose(s, i) == FirstOf(s, {"]"}, i + 1)

LinkParen(s, i) == FirstOf(s, {")"}, LinkClose(s, i) + 2)

LinkAt(s, i) ==
    /\ At(s, i) = "["
    /\ LinkClose(s, i) > i + 1
    /\ At(s, LinkClose(s, i) + 1) = "("
    /\ LinkParen(s, i) > LinkClose(s, i) + 2

RECURSIVE md_link_targets(_, _)
\* re.findall(r"\[([^\]]+)\]\(([^)]+)\)", s): the second group of every match,
\* the scan starting at index i
md_link_targets(s, i) ==
    LET j == Least({k \in i..Len(s) : LinkAt(s, k)}) IN
    IF j = 0 THEN <<>>
    ELSE <<SubSeq(s, LinkClose(s, j) + 2, LinkParen(s, j) - 1)>>
            \o md_link_targets(s, LinkParen(s, j) + 1)

\* the characters that end a bare URL: [\s\)\]\>\"\']
UrlStops == Whitespace \cup {")", "]", ">", "\"", "'"}

\* The index after the scheme when s has http:// or https:// at i, else 0.
AfterScheme(s, i) ==
    IF MatchAt(s, "http://", i) THEN i + 7
    ELSE IF MatchAt(s, "https://", i) THEN i + 8
    ELSE 0

\* The last index of the match of r"https?://[^\s\)\]\>\"\']+" at index i.
BareLast(s, i) ==
    LET stop == FirstOf(s, UrlStops, AfterScheme(s, i)) IN
    IF stop = 0 THEN Len(s) ELSE stop - 1

\* Whether the pattern matches at index i: the scheme and one character more.
BareAt(s, i) == AfterScheme(s, i) # 0 /\ AfterScheme(s, i) <= BareLast(s, i)

RECURSIVE bare_url_spans(_, _)
\* re.finditer(r"https?://[^\s\)\]\>\"\']+", s): the (first, last) indices of
\* every match, the scan starting at index i
bare_url_spans(s, i) ==
    LET j == Least({k \in i..Len(s) : BareAt(s, k)}) IN
    IF j = 0 THEN <<>>
    ELSE <<<<j, BareLast(s, j)>>>> \o bare_url_spans(s, BareLast(s, j) + 1)

\* re.findall(r"https?://[^\s\)\]\>\"\']+", s)
bare_urls(s) ==
    LET spans == bare_url_spans(s, 1) IN
    [k \in DOMAIN spans |-> SubSeq(s, spans[k][1], spans[k][2])]

\* base_netloc in urlparse(url).netloc.lower()
same_domain(base_netloc, url) == contains(base_netloc, lower(urlparse(url).netloc))

\* Lines 108-111: a link that starts with "/"
root_relative(base_url, url) ==
    LET parsed_base == urlparse(base_url) IN
    parsed_base.scheme \o "://" \o parsed_base.netloc \o url

\* Lines 114-123: a link relative to the directory of the base URL
path_relative(base_url, url) ==
    LET parsed_base == urlparse(base_url)
        head        == rsplit_head(parsed_base.path, "/")
        base_path   == IF endswith(head, "/") THEN head ELSE head \o "/"
        full_url    == parsed_base.scheme \o "://" \o parsed_base.netloc \o base_path \o url
    IN  replace(replace(full_url, "/../", "/"), "/./", "/")

\* The body of the loop over md_links, lines 101-125: what one link adds.
md_link_urls(base_url, target) ==
    LET url == strip(target) IN
    IF is_image_url(url) THEN {}
    ELSE IF startswith(url, "http://") \/ startswith(url, "https://")
    THEN IF same_domain(lower(urlparse(base_url).netloc), url) THEN {url} ELSE {}
    ELSE IF startswith(url, "/")
    THEN IF is_image_url(root_relative(base_url, url)) THEN {} ELSE {root_relative(base_url, url)}
    ELSE IF /\ ~\E p \in {"#", "javascript:", "mailto:", "tel:"} : startswith(url, p)
            /\ contains(".", url)
    THEN IF is_image_url(path_relative(base_url, url)) THEN {} ELSE {path_relative(base_url, url)}
    ELSE {}

\* The body of the loop over bare_urls, lines 129-133
bare_url_urls(base_url, url) ==
    IF is_image_url(url) THEN {}
    ELSE IF same_domain(lower(urlparse(base_url).netloc), url) THEN {url} ELSE {}

extract_urls_from_markdown(markdown_content, base_url) ==
    LET md_links == md_link_targets(markdown_content, 1)
        bare     == bare_urls(markdown_content)
    IN  UNION {md_link_urls(base_url, md_links[k]) : k \in DOMAIN md_links}
          \cup UNION {bare_url_urls(base_url, bare[k]) : k \in DOMAIN bare}

---------------------------------------------------------------------------
(* extract_images_from_markdown, tasks.py 32-73 (and scrapes/methods.py
   34-75). *)

\* Whether r"!\[([^\]]*)\]\(([^)]+)\)" matches at index i of s: "![", the
\* first "]" after it, "(" next to it, and the first ")" at least one
\* character further.
ImageClose(s, i) == FirstOf(s, {"]"}, i + 2)

ImageParen(s, i) == FirstOf(s, {")"}, ImageClose(s, i) + 2)

ImageAt(s, i) ==
    /\ At(s, i) = "!"
    /\ At(s, i + 1) = "["
    /\ ImageClose(s, i) # 0
    /\ At(s, ImageClose(s, i) + 1) = "("
    /\ ImageParen(s, i) > ImageClose(s, i) + 2

ImageTarget(s, i) == SubSeq(s, ImageClose(s, i) + 2, ImageParen(s, i) - 1)

\* The index of the first match at or after index i, 0 if there is none.
NextImage(s, i) == Least({k \in i..Len(s) : ImageAt(s, k)})

RECURSIVE md_images(_, _)
\* re.findall(r"!\[([^\]]*)\]\(([^)]+)\)", s): the second group of every
\* match, the scan starting at index i
md_images(s, i) ==
    LET j == NextImage(s, i) IN
    IF j = 0 THEN <<>>
    ELSE <<ImageTarget(s, j)>> \o md_images(s, ImageParen(s, j) + 1)

RECURSIVE remove_md_images(_, _)
\* re.sub(r"!\[([^\]]*)\]\(([^)]+)\)", "", s), the scan starting at index i
remove_md_images(s, i) ==
    LET j == NextImage(s, i) IN
    IF j = 0 THEN From(s, i)
    ELSE SubSeq(s, i, j - 1) \o remove_md_images(s, ImageParen(s, j) + 1)

\* url.lower().split("?")[0].endswith(image_extensions), lines 59-62
bare_images(content) == SelectSeq(bare_urls(content), is_image_url)

RECURSIVE remove_all(_, _, _)
\* for url in images: content = content.replace(url, ""), lines 65-66
remove_all(content, images, k) ==
    IF k > Len(images) THEN content
    ELSE remove_all(replace(content, images[k], ""), images, k + 1)

\* The length of the run of the character c that starts at index i of s.
RunLength(s, c, i) ==
    LET stop == Least({j \in i..Len(s) : At(s, j) # c}) IN
    IF stop = 0 THEN Len(s) - i + 1 ELSE stop - i

RECURSIVE collapse(_, _, _, _, _)
\* re.sub(c{n,}, to, s), the scan starting at index i
collapse(s, c, n, to, i) ==
    LET j == Least({k \in i..Len(s) : At(s, k) = c /\ RunLength(s, c, k) >= n}) IN
    IF j = 0 THEN From(s, i)
    ELSE SubSeq(s, i, j - 1) \o to \o collapse(s, c, n, to, j + RunLength(s, c, j))

\* images after lines 38-62: the markdown targets, then the bare image URLs
images_list(targets, bare) == targets \o bare

extract_images_from_markdown(markdown_content) ==
    LET found   == md_images(markdown_content, 1)
        targets == [k \in DOMAIN found |-> strip(found[k])]
        content == remove_md_images(markdown_content, 1)
        images  == images_list(targets, bare_images(content))
        removed == remove_all(content, images, 1)
    IN  [content |-> strip(collapse(collapse(removed, "\n", 3, "\n\n", 1), " ", 2, " ", 1)),
         images  |-> images]

---------------------------------------------------------------------------
(* extract_single_url on a page given as markdown, and two runs of
   extract_website_recursive over the same pages, one with include_images
   and one without (tasks.py 183-228 and 231-288). *)

\* The number of pages of the site the two runs crawl.
PairPages == 3

Digit == <<"1", "2", "3", "4", "5", "6", "7", "8", "9">>

PageUrl(i) == "https://e.com/p" \o Digit[i]

PageOf(url) == CHOOSE i \in 1..PairPages : PageUrl(i) = url

\* What a page can hold, as markdown: a link to the next page; the next page
\* under image syntax; an image, a link to the next page, a bare URL of the
\* page after it and a bare image URL; no link.
BodyKinds == {"plain", "shot", "mixed", "leaf"}

Body(kind, i) ==
    LET j == Digit[(i % PairPages) + 1]
        k == Digit[((i + 1) % PairPages) + 1]
    IN  CASE kind = "plain" -> "\n[next](/p" \o j \o ")\n"
          [] kind = "shot"  -> "![shot](/p" \o j \o ") caption"
          [] kind = "mixed" -> "![pic](https://e.com/a.png)\n\n\n\n[next](https://e.com/p" \o j
                                 \o ") and https://e.com/p" \o k \o " https://e.com/b.jpg"
          [] OTHER          -> "  no links here  "

\* Mutant of link_source: the links are read from the cleaned content.
link_source_cleaned(markdown_content, cleaned_content) == cleaned_content

\* The text whose links are extracted, tasks.py:224 (methods.py:248)
link_source(markdown_content, cleaned_content) == markdown_content

\* The dictionary extract_single_url returns for a page whose markdown,
\* before line 211, is body (lines 211-225).
extract_single_url(url, body, include_images) ==
    LET markdown_content == strip(body)
        extracted        == extract_images_from_markdown(markdown_content)
        cleaned_content  == IF include_images THEN extracted.content ELSE markdown_content
        images           == IF include_images THEN extracted.images ELSE <<>>
    IN  [url         |-> url,
         content     |-> cleaned_content,
         images      |-> images,
         linked_urls |-> extract_urls_from_markdown(
                            link_source(markdown_content, cleaned_content), url)]

\* What extract_single_url returns for each page, body and flag.
Extracted ==
    [kind \in BodyKinds, i \in 1..PairPages, include_images \in BOOLEAN |->
        extract_single_url(PageUrl(i), Body(kind, i), include_images)]

\* A run of extract_website_recursive at line 241.
NewRun ==
    [pc |-> "loop", visited |-> {}, urls_to_process |-> {<<PageUrl(1), 0>>},
     waves |-> <<>>, results |-> {}, links |-> {}]

\* The run after the part of an iteration that follows get() (lines 270-286):
\* result maps each member of the batch to what its unit returned.
after_group(run, batch, seen, result, max) ==
    [run EXCEPT
        !.visited = seen,
        !.waves = Append(run.waves, {e[1] : e \in batch}),
        !.results = run.results \cup
            {[url     |-> result[e].url,
              content |-> result[e].content,
              images  |-> result[e].images] : e \in batch},
        !.links = run.links \cup {<<e[1], result[e].linked_urls>> : e \in batch},
        !.urls_to_process =
            UNION {IF e[2] < max
                   THEN {<<l, e[2] + 1>> : l \in result[e].linked_urls \ seen}
                   ELSE {} : e \in batch}]

\* One iteration of "while urls_to_process" by the run with include_images =
\* flag (lines 243-286), or its end (line 288, or the exception of a unit
\* that failed for good leaving get() at line 267). The lists are kept as
\* sets: the order of a batch has no part in which URLs it holds.
PairWave(flag) ==
    /\ mode = "pair"
    /\ out[flag].pc = "loop"
    /\ LET run   == out[flag]
           batch == {e \in run.urls_to_process :
                        e[1] \notin run.visited /\ e[2] <= arg.max_depth}
           seen  == run.visited \cup {e[1] : e \in batch}
       IN  IF batch = {}
           THEN out' = [out EXCEPT ![flag].pc = "done"]
           ELSE IF \E e \in batch : e[1] \in arg.down
           THEN out' = [out EXCEPT ![flag].pc = "raised",
                                   ![flag].visited = seen,
                                   ![flag].waves = Append(run.waves, {e[1] : e \in batch})]
           ELSE out' = [out EXCEPT ![flag] =
                          after_group(run, batch, seen,
                                      [e \in batch |->
                                          Extracted[arg.kinds[PageOf(e[1])], PageOf(e[1]), flag]],
                                      arg.max_depth)]
    /\ UNCHANGED <<inputs, poolVars, crawlVars, driver, files, exporter, arg>>

---------------------------------------------------------------------------
(* extract_website_recursive run as a task (it is a shared_task, tasks.py
   231) on the pool that also executes its extract_single_url units.  The
   broker's queue is first in, first out; a worker process executes one task
   at a time and reserves none while it does (worker_prefetch_multiplier = 1,
   celery_app.py 14).  What job.apply_async().get() does inside a task
   depends on the Celery release the program is run with: it raises
   RuntimeError ("Never call result.get() within a task!"), or it blocks the
   worker until the group is done. *)

\* The most worker processes of the pool, and the most crawls submitted.
MaxWorkers == 2

MaxCrawls == 2

\* The sizes of the batches of a crawl, wave by wave: the seed alone, or the
\* seed and then its two links.
BatchSizes == {<<1>>, <<1, 2>>}

JoinInTask == {"raises", "blocks"}

Idle == [kind |-> "idle", crawl |-> 0, index |-> 0]

CrawlTask(c) == [kind |-> "crawl", crawl |-> c, index |-> 0]

UnitTask(c, i) == [kind |-> "unit", crawl |-> c, index |-> i]

\* extract_website_recursive.delay(...): the task is on the queue.
NewCrawl(sizes) ==
    [pc |-> "queued", sizes |-> sizes, wave |-> 0, done |-> {}, dispatched |-> 0,
     executed |-> 0]

\* The worker that executes the crawl task c.
WorkerOf(c) == CHOOSE w \in DOMAIN worker : worker[w] = CrawlTask(c)

\* group(task_signatures): one unit per member of the batch, in its order
unit_tasks(c, n) == [i \in 1..n |-> UnitTask(c, i)]

\* Every unit of the group that get() waits for has a result.
group_done(c) == crawl[c].done = 1..crawl[c].sizes[crawl[c].wave]

\* An idle worker process takes the oldest task of the queue and starts it.
PoolTake(w) ==
    /\ mode = "pool"
    /\ worker[w] = Idle
    /\ queue # <<>>
    /\ worker' = [worker EXCEPT ![w] = Head(queue)]
    /\ queue' = Tail(queue)
    /\ crawl' = IF Head(queue).kind = "crawl"
                THEN [crawl EXCEPT ![Head(queue).crawl].pc = "loop"]
                ELSE crawl
    /\ UNCHANGED <<inputs, crawlVars, auxVars>>

\* One pass of the crawl task c from "while urls_to_process" to its call of
\* get(), the units of the batch being sent to the queue by apply_async()
\* (lines 243-267), or its return when no batch is left (lines 254-255, 288).
CrawlLoop(c) ==
    /\ mode = "pool"
    /\ crawl[c].pc = "loop"
    /\ IF crawl[c].wave = Len(crawl[c].sizes)
       THEN /\ crawl' = [crawl EXCEPT ![c].pc = "returned"]
            /\ worker' = [worker EXCEPT ![WorkerOf(c)] = Idle]
            /\ UNCHANGED queue
       ELSE /\ crawl' = [crawl EXCEPT
                           ![c].pc = "get",
                           ![c].wave = crawl[c].wave + 1,
                           ![c].done = {},
                           ![c].dispatched = crawl[c].dispatched
                                               + crawl[c].sizes[crawl[c].wave + 1]]
            /\ queue' = queue \o unit_tasks(c, crawl[c].sizes[crawl[c].wave + 1])
            /\ UNCHANGED worker
    /\ UNCHANGED <<inputs, crawlVars, auxVars>>

\* get() at line 267 refuses to wait inside a task: RuntimeError leaves
\* extract_website_recursive, which has no handler, and the task has failed.
CrawlGetRaises(c) ==
    /\ mode = "pool"
    /\ arg.join = "raises"
    /\ crawl[c].pc = "get"
    /\ crawl' = [crawl EXCEPT ![c].pc = "raised"]
    /\ worker' = [worker EXCEPT ![WorkerOf(c)] = Idle]
    /\ UNCHANGED <<inputs, crawlVars, auxVars, queue>>

\* get() at line 267 returns, having kept its worker until the group is done.
CrawlJoin(c) ==
    /\ mode = "pool"
    /\ arg.join = "blocks"
    /\ crawl[c].pc = "get"
    /\ group_done(c)
    /\ crawl' = [crawl EXCEPT ![c].pc = "loop"]
    /\ UNCHANGED <<inputs, crawlVars, auxVars, queue, worker>>

\* The worker w finishes the extract_single_url unit it is executing.
UnitDone(w) ==
    /\ mode = "pool"
    /\ worker[w].kind = "unit"
    /\ crawl' = [crawl EXCEPT
                   ![worker[w].crawl].done = @ \cup {worker[w].index},
                   ![worker[w].crawl].executed = @ + 1]
    /\ worker' = [worker EXCEPT ![w] = Idle]
    /\ UNCHANGED <<inputs, crawlVars, auxVars, queue>>

---------------------------------------------------------------------------
(* Initial state. *)

\* The variables of the crawls, for a mode that runs no crawl.
CrawlAtRest ==
    /\ start_url = Url(1)
    /\ max_depth = 0
    /\ recursive = FALSE
    /\ site = Chain
    /\ error = "none"
    /\ visited = {}
    /\ urls_to_process = <<>>
    /\ current_batch = <<>>
    /\ unit = <<>>
    /\ completed = <<>>
    /\ results = <<>>
    /\ wave = 0
    /\ log = <<>>
    /\ stack = <<>>
    /\ websites = {}
    /\ failed = {}
    /\ link_failed = {}
    /\ followed = {}
    /\ scrape_rows = {}
    /\ website_rows = {}
    /\ scrape = 0

NoDriver == [state |-> "none", quits |-> 0]

\* The variables of the worker pool, for a mode that has no pool.
PoolAtRest == queue = <<>> /\ worker = <<>> /\ crawl = <<>>

\* The start of a crawl by extract_website_recursive or by scrape_website;
\* arg names the database that earlier runs of scrape_website left.
InitCrawl ==
    /\ PoolAtRest
    /\ mode \in {"wave", "rec"}
    /\ start_url \in Seeds
    /\ max_depth \in 0..MaxDepthBound
    /\ recursive \in (IF mode = "rec" THEN BOOLEAN ELSE {TRUE})
    /\ site \in Sites
    /\ pc = IF mode = "wave" THEN "loop" ELSE "start"
    /\ error = "none"
    /\ visited = {}
    /\ urls_to_process = IF mode = "wave" THEN <<<<start_url, 0>>>> ELSE <<>>
    /\ current_batch = <<>>
    /\ unit = <<>>
    /\ completed = <<>>
    /\ results = <<>>
    /\ wave = 0
    /\ log = <<>>
    /\ stack = <<>>
    /\ websites = {}
    /\ failed = {}
    /\ link_failed = {}
    /\ followed = {}
    /\ arg \in (IF mode = "rec" THEN PriorNames ELSE {"empty"})
    /\ scrape_rows = PriorDatabase(arg, start_url).scrapes
    /\ website_rows = PriorDatabase(arg, start_url).websites
    /\ scrape = 0
    /\ driver = NoDriver
    /\ files = IF mode = "rec"
               THEN [k \in Names |-> IF k = 0 /\ arg = "same_seed" THEN "old" ELSE "none"]
               ELSE <<>>
    /\ exporter = <<>>
    /\ out = "none"

\* The start of a call of fetch_with_selenium.
InitBrowser ==
    /\ PoolAtRest
    /\ mode = "browser"
    /\ CrawlAtRest
    /\ pc = "launch"
    /\ driver = NoDriver
    /\ files = <<>>
    /\ exporter = <<>>
    /\ arg = "none"
    /\ out = "none"

\* Two calls of save_results_to_json for the same url.
InitExport ==
    /\ PoolAtRest
    /\ mode = "export"
    /\ CrawlAtRest
    /\ pc = "export"
    /\ driver = NoDriver
    /\ files \in OldFiles
    /\ exporter = [c \in Callers |-> IdleExporter]
    /\ arg = "none"
    /\ out = "none"

\* The start of a call of fetch_page_content with use_selenium false.
InitFetch ==
    /\ PoolAtRest
    /\ mode = "fetch"
    /\ CrawlAtRest
    /\ pc = "request"
    /\ driver = NoDriver
    /\ files = <<>>
    /\ exporter = <<>>
    /\ arg \in Encounters
    /\ out = "none"

Init ==
    \/ InitCrawl
    \/ InitBrowser
    \/ InitExport
    \/ InitFetch

Next ==
    \/ BuildBatch
    \/ \E i \in Pages : RunUnit(i)
    \/ Tick
    \/ Join
    \/ JoinRaise
    \/ ScrapeStart
    \/ ExtractEnter
    \/ ExtractLoop
    \/ ScrapeReturn
    \/ SeleniumLaunch
    \/ SeleniumGet
    \/ SeleniumWait
    \/ SeleniumSleep
    \/ SeleniumSource
    \/ \E c \in Callers : ExportStart(c)
    \/ \E c \in Callers : ExportCheck(c)
    \/ \E c \in Callers : ExportWrite(c)
    \/ FetchRequest
    \/ FetchStatus

Spec == Init /\ [][Next]_vars


\* Under LiveSpec every task that can run is run, the clock advances while a
\* task waits for its countdown, and the scheduler takes its next step.
Fairness ==
    /\ WF_vars(BuildBatch)
    /\ WF_vars(Tick)
    /\ WF_vars(Join)
    /\ WF_vars(JoinRaise)
    /\ \A i \in Pages : WF_vars(RunUnit(i))
    /\ WF_vars(ScrapeStart \/ ExtractEnter \/ ExtractLoop \/ ScrapeReturn)
    /\ WF_vars(SeleniumLaunch \/ SeleniumGet \/ SeleniumWait \/ SeleniumSleep \/ SeleniumSource)
    /\ \A c \in Callers : WF_vars(ExportStart(c) \/ ExportCheck(c) \/ ExportWrite(c))
    /\ WF_vars(FetchRequest \/ FetchStatus)

LiveSpec == Init /\ [][Next]_vars /\ Fairness

---------------------------------------------------------------------------
(* The specification of extract_urls_from_markdown: the arguments are drawn
   from a catalogue of page fragments and of base URLs, and one action
   applies the function. *)

LinkPieces ==
    << "[x](https://example.com/x)",
       "[y](https://other.com/y)",
       "[z](/z)",
       "[e](https://example.com.evil.org/e)",
       "[r](docs/r.html)",
       "[p](../p.html)",
       "see https://EXAMPLE.com/up for more",
       "[m](mailto:me@example.com)",
       "[i](https://example.com/i.png)",
       "<https://other.com/q>",
       "[s]( https://sub.example.com/s )",
       "[a](/img/a.PNG?w=1)",
       "[b](pics/b.jpeg)",
       "photo https://example.com/c.GIF here" >>

Bases == {"https://example.com/a/b", "http://Example.com", "https://example.com/dir/"}

RECURSIVE JoinPieces(_, _, _)
\* The pieces chosen by picked, in the order of the catalogue, one per line.
JoinPieces(pieces, picked, k) ==
    IF k > Len(pieces) THEN ""
    ELSE IF k \in picked
         THEN pieces[k] \o "\n" \o JoinPieces(pieces, picked, k + 1)
         ELSE JoinPieces(pieces, picked, k + 1)

Picks(pieces, n) == {S \in SUBSET DOMAIN pieces : Cardinality(S) <= n}

InitLinks ==
    /\ PoolAtRest
    /\ mode = "links"
    /\ CrawlAtRest
    /\ pc = "call"
    /\ driver = NoDriver
    /\ files = <<>>
    /\ exporter = <<>>
    /\ arg \in {[content |-> JoinPieces(LinkPieces, S, 1), base |-> b] :
                   S \in Picks(LinkPieces, MaxLinks), b \in Bases}
    /\ out = {}

ExtractUrls ==
    /\ mode = "links"
    /\ pc = "call"
    /\ out' = extract_urls_from_markdown(arg.content, arg.base)
    /\ pc' = "returned"
    /\ UNCHANGED <<inputs, poolVars, error, visited, waveVars, log, recVars, dbVars,
                   driver, files, exporter, arg>>

NextLinks == ExtractUrls

SpecLinks == InitLinks /\ [][NextLinks]_vars

---------------------------------------------------------------------------
(* The specification of extract_images_from_markdown: the page is drawn from
   a catalogue of fragments and one action applies the function. *)

ImagePieces ==
    << "https://e.com/a.png",
       "![x](https://e.com/b.png)",
       "  two  spaces  ",
       "![](Q)",
       "![a]Q(b)",
       "[t](https://e.com/page)",
       "see https://e.com/c.JPG?w=1 here",
       "![y]( https://e.com/d.gif )",
       "![alt]() text" >>

InitImages ==
    /\ PoolAtRest
    /\ mode = "images"
    /\ CrawlAtRest
    /\ pc = "call"
    /\ driver = NoDriver
    /\ files = <<>>
    /\ exporter = <<>>
    /\ arg \in {JoinPieces(ImagePieces, S, 1) : S \in Picks(ImagePieces, MaxImages)}
    /\ out = [content |-> "", images |-> <<>>]

ExtractImages ==
    /\ mode = "images"
    /\ pc = "call"
    /\ out' = extract_images_from_markdown(arg)
    /\ pc' = "returned"
    /\ UNCHANGED <<inputs, poolVars, error, visited, waveVars, log, recVars, dbVars,
                   driver, files, exporter, arg>>

NextImages == ExtractImages

SpecImages == InitImages /\ [][NextImages]_vars

---------------------------------------------------------------------------
(* The specification of the pair of crawls: the pages, max_depth and the
   pages whose fetch fails for good are drawn once and shared by the two
   runs, which differ in include_images alone and advance in any order. *)

InitPair ==
    /\ PoolAtRest
    /\ mode = "pair"
    /\ CrawlAtRest
    /\ pc = "pair"
    /\ driver = NoDriver
    /\ files = <<>>
    /\ exporter = <<>>
    /\ arg \in [kinds     : [1..PairPages -> BodyKinds],
                max_depth : 0..MaxDepthBound,
                down      : {{}, {PageUrl(PairPages)}}]
    /\ out = [include_images \in BOOLEAN |-> NewRun]

NextPair == \E include_images \in BOOLEAN : PairWave(include_images)

SpecPair == InitPair /\ [][NextPair]_vars

---------------------------------------------------------------------------
(* The specification of the worker pool: the number of worker processes, the
   crawls submitted and what get() does inside a task are drawn by Init.
   The fair specification lets no worker and no task wait for ever when it
   can go on. *)

InitPool ==
    /\ mode = "pool"
    /\ CrawlAtRest
    /\ pc = "pool"
    /\ driver = NoDriver
    /\ files = <<>>
    /\ exporter = <<>>
    /\ arg \in [join : JoinInTask]
    /\ out = "none"
    /\ \E n \in 1..MaxWorkers : worker = [w \in 1..n |-> Idle]
    /\ \E k \in 1..MaxCrawls :
          /\ crawl \in [1..k -> {NewCrawl(sizes) : sizes \in BatchSizes}]
          /\ queue = [c \in 1..k |-> CrawlTask(c)]

NextPool ==
    \/ \E w \in DOMAIN worker : PoolTake(w)
    \/ \E c \in DOMAIN crawl : CrawlLoop(c)
    \/ \E c \in DOMAIN crawl : CrawlGetRaises(c)
    \/ \E c \in DOMAIN crawl : CrawlJoin(c)
    \/ \E w \in DOMAIN worker : UnitDone(w)

SpecPool == InitPool /\ [][NextPool]_vars

FairnessPool ==
    /\ WF_vars(\E w \in DOMAIN worker : PoolTake(w))
    /\ WF_vars(\E c \in DOMAIN crawl : CrawlLoop(c))
    /\ WF_vars(\E c \in DOMAIN crawl : CrawlGetRaises(c))
    /\ WF_vars(\E c \in DOMAIN crawl : CrawlJoin(c))
    /\ WF_vars(\E w \in DOMAIN worker : UnitDone(w))

LivePool == InitPool /\ [][NextPool]_vars /\ FairnessPool

---------------------------------------------------------------------------
(* Helpers of the properties. *)

Range(s) == {s[i] : i \in DOMAIN s}

IsPrefix(s, t) == Len(s) <= Len(t) /\ SubSeq(t, 1, Len(s)) = s

\* What extract_website_recursive has returned to its caller.
Returned == IF mode = "wave" /\ pc = "done" THEN results ELSE <<>>

Ended == pc \in {"done", "raised", "returned"}

\* The batch members whose task is in the given state.
Members(state) == {i \in DOMAIN unit \cap DOMAIN current_batch : unit[i].state = state}

\* The index of the wave that dispatched url.
WaveIn(lg, url) == (CHOOSE e \in Range(lg) : e.url = url).wave

WaveOf(url) == WaveIn(log, url)

---------------------------------------------------------------------------
(* C1 *)

\* C1: within one crawl no URL is fetched more than once: the dispatched
\* batch members (wave crawl) and the fetch calls (recursive crawl) name
\* pairwise different URLs, each of them in visited, and the members of one
\* batch are pairwise different.
C1_NoUrlFetchedTwice ==
    /\ \A i, j \in DOMAIN log : i # j => log[i].url # log[j].url
    /\ \A i \in DOMAIN log : log[i].url \in visited
    /\ \A i, j \in DOMAIN current_batch :
         i # j => current_batch[i][1] # current_batch[j][1]

\* The wave crawl of the diamond, whose page 4 is linked by two pages of one
\* wave and links back to the seed, has ended with each page fetched once.
C1_Witness ==
    /\ mode = "wave"
    /\ pc = "done"
    /\ site = Diamond
    /\ max_depth = 2
    /\ {e.url : e \in Range(log)} = {Url(1), Url(2), Url(3), Url(4)}
    /\ Len(log) = 4

---------------------------------------------------------------------------
(* C2 *)

\* C2: when a URL of a wave fails every attempt, the crawl is not aborted and
\* the siblings that succeeded have their PageResult in the returned results.
C2_SiblingsSurviveFailure ==
    (mode = "wave" /\ Ended /\ Members("FAILURE") # {} /\ Members("SUCCESS") # {}) =>
        /\ pc = "done"
        /\ \A i \in Members("SUCCESS") :
             page_result(current_batch[i][1]) \in Range(Returned)

---------------------------------------------------------------------------
(* C3 *)

\* C3 as stated: no task makes more than 3 fetch attempts.
C3_AtMostThreeAttempts ==
    \A i \in DOMAIN unit : unit[i].attempts <= 3

\* C3 amended: a task makes at most 4 attempts (the first and 3 retries); a
\* retry is queued with a countdown of 60 and runs no sooner than 60 after
\* the attempt that failed.
C3_AtMostFourAttempts ==
    \A i \in DOMAIN unit :
        /\ unit[i].attempts <= 4
        /\ unit[i].state = "RETRY" => unit[i].countdown = 60
        /\ unit[i].attempts >= 2 => unit[i].lastwait >= 60
        /\ unit[i].state = "FAILURE" => unit[i].attempts = 4

\* A task has failed for good, after its fourth attempt.
C3_Witness ==
    \E i \in DOMAIN unit :
        unit[i].state = "FAILURE" /\ unit[i].attempts = 4 /\ unit[i].lastwait >= 60

---------------------------------------------------------------------------
(* C4 *)

\* C4: no URL is fetched at a depth greater than max_depth, and with
\* max_depth = 0 a crawl whose seed fetch succeeded produces exactly one
\* PageResult, the seed's, in both crawls.
C4_DepthBound ==
    /\ \A i \in DOMAIN log : log[i].depth <= max_depth
    /\ (max_depth = 0 /\ mode = "wave" /\ pc = "done") =>
           results = <<page_result(start_url)>>
    /\ (max_depth = 0 /\ mode = "rec" /\ pc = "returned"
          /\ SupportedScheme(start_url) /\ start_url \notin failed) =>
           websites = {start_url}
    /\ max_depth = 0 => Len(log) <= 1

\* A crawl with max_depth = 0 of a seed that has links has ended with the
\* seed's record alone.
C4_Witness ==
    /\ max_depth = 0
    /\ mode = "rec"
    /\ recursive
    /\ pc = "returned"
    /\ linked_urls(start_url) # {}
    /\ websites = {start_url}

---------------------------------------------------------------------------
(* C5 *)

\* C5: for a seed that is not http(s) the crawl makes no fetch attempt,
\* yields no PageResult, and ends with an unsupported-scheme error.
C5_UnsupportedSchemeSurfaced ==
    ~SupportedScheme(start_url) =>
        /\ \A i \in DOMAIN unit : unit[i].attempts = 0
        /\ mode = "rec" => log = <<>>
        /\ results = <<>>
        /\ websites = {}
        /\ Ended => error = "UnsupportedScheme"

---------------------------------------------------------------------------
(* C6 *)

\* C6: in the recursive crawl no exception reaches the caller; a URL whose
\* call raised while fetching, transforming or storing has no Website record
\* and none of its links is followed; and once scrape_website has returned,
\* every link of a page whose links were followed has been processed.
C6_ErrorIsolation ==
    mode = "rec" =>
        /\ pc # "raised"
        /\ error = "none"
        /\ failed \cap websites = {}
        /\ \A pair \in followed : pair[1] \notin failed
        /\ pc = "returned" =>
             \A pair \in followed : linked_urls(pair[1]) \subseteq visited

\* scrape_website has returned after a crawl in which one link of the seed
\* failed and another link of the seed was stored.
C6_Witness ==
    /\ mode = "rec"
    /\ pc = "returned"
    /\ start_url \in websites
    /\ \E a, b \in linked_urls(start_url) :
         /\ a # b
         /\ <<start_url, a>> \in followed /\ a \in failed
         /\ <<start_url, b>> \in followed /\ b \in websites

---------------------------------------------------------------------------
(* C7 *)

\* C7: whenever the scheduler is where it dispatches the next wave (or has
\* left the loop), every task of the wave before has completed.
C7_WaveBarrier ==
    (mode = "wave" /\ pc \in {"loop", "done"}) =>
        \A i \in DOMAIN unit : unit[i].state \in {"SUCCESS", "FAILURE"}

\* A wave of two tasks, one of which was retried, has been joined and the
\* next wave is about to be built.
C7_Witness ==
    /\ mode = "wave"
    /\ pc = "loop"
    /\ urls_to_process # <<>>
    /\ Len(unit) >= 2
    /\ \E i \in DOMAIN unit : unit[i].attempts >= 2

---------------------------------------------------------------------------
(* C8 *)

\* The URLs of the results collected from the wave joined last.
LastWaveUrls ==
    LET n == Len(current_batch)
    IN [k \in 1..n |-> results[Len(results) - n + k].url]

WaveJoined == mode = "wave" /\ pc = "loop" /\ wave >= 1

\* C8 as stated: the results of a wave are in the order its tasks completed.
C8_CompletionOrder ==
    WaveJoined =>
        LastWaveUrls = [k \in 1..Len(current_batch) |-> current_batch[completed[k]][1]]

\* C8 amended: the results of a wave are in the order its tasks were
\* dispatched (the batch order), whatever the order they completed in.
C8_DispatchOrder ==
    WaveJoined =>
        /\ Len(results) >= Len(current_batch)
        /\ LastWaveUrls = [k \in 1..Len(current_batch) |-> current_batch[k][1]]

\* A wave has been joined whose second task completed first.
C8_Witness ==
    /\ WaveJoined
    /\ Len(completed) >= 2
    /\ completed[1] = 2

---------------------------------------------------------------------------
(* C9 *)

\* C9: every step leaves the results already collected in place (results
\* only grows at its end), and of two results of different waves the one of
\* the earlier wave comes first.
C9_WaveOrder ==
    [][/\ IsPrefix(results, results')
       /\ \A i, j \in DOMAIN results' :
            WaveIn(log', results'[i].url) < WaveIn(log', results'[j].url) => i < j]_vars

\* The crawl has returned results of three waves.
C9_Witness ==
    /\ mode = "wave"
    /\ pc = "done"
    /\ Len(results) >= 3
    /\ {WaveOf(results[i].url) : i \in DOMAIN results} = {0, 1, 2}

---------------------------------------------------------------------------
(* C10 *)

\* C10: the wave crawl dispatches at most max_depth + 1 waves, and when every
\* task eventually completes it ends.
C10_Termination ==
    /\ [](mode = "wave" => wave <= max_depth + 1)
    /\ <>(mode = "wave" => pc \in {"done", "raised"})

\* The crawl has ended after max_depth + 1 = 3 waves.
C10_Witness ==
    /\ mode = "wave"
    /\ pc = "done"
    /\ max_depth = 2
    /\ wave = 3

---------------------------------------------------------------------------
(* C11 *)

\* C11: a browser that was launched is quit exactly once by the time
\* fetch_with_selenium has returned or raised, it is never quit twice, and
\* it is running for as long as the call is inside its try block.
C11_BrowserTeardown ==
    mode = "browser" =>
        /\ driver.quits <= 1
        /\ pc \in {"get", "wait", "sleep", "source"} => driver.state = "running"
        /\ pc \in {"returned", "raised"} =>
             /\ driver.state # "running"
             /\ driver.state = "quit" <=> driver.quits = 1
             /\ driver.state = "none" => (pc = "raised" /\ driver.quits = 0)

\* The wait for the body element timed out and the browser has been quit.
C11_Witness ==
    /\ mode = "browser"
    /\ pc = "raised"
    /\ error = "TimeoutException"
    /\ driver = [state |-> "quit", quits |-> 1]

---------------------------------------------------------------------------
(* C12 *)

\* The first name that did not exist when the call began.
FirstFree(fs) == CHOOSE k \in Names : fs[k] = "none" /\ \A j \in 0..(k - 1) : fs[j] # "none"

\* C12: an export leaves every file that existed before the call as it was;
\* the name it writes is the base name or a numbered name all of whose
\* predecessors exist; and a call that no other call overlaps writes the
\* first name that was free when it began, which did not exist when written.
C12_CollisionAvoidance ==
    mode = "export" =>
        \A c \in Callers :
            /\ exporter[c].pc # "idle" =>
                 \A k \in Names :
                    exporter[c].before[k] # "none" => files[k] = exporter[c].before[k]
            /\ exporter[c].pc = "done" =>
                 \A j \in 0..(exporter[c].path - 1) : files[j] # "none"
            /\ (exporter[c].pc = "done" /\ ~exporter[c].overlapped) =>
                 /\ exporter[c].clobbered = "none"
                 /\ files[exporter[c].path] = c
                 /\ exporter[c].path = FirstFree(exporter[c].before)

\* The first call wrote <name>_2.json beside the old <name>.json and
\* <name>_1.json, and the second call, begun afterwards, wrote <name>_3.json.
C12_Witness ==
    /\ mode = "export"
    /\ files[0] = "old" /\ files[1] = "old"
    /\ files[2] = "first" /\ files[3] = "second"
    /\ exporter["first"].pc = "done" /\ exporter["second"].pc = "done"
    /\ ~exporter["first"].overlapped /\ ~exporter["second"].overlapped
    /\ exporter["second"].before[2] = "first"

---------------------------------------------------------------------------
(* C13 *)

Netloc(url) == lower(urlparse(url).netloc)

---------------------------------------------------------------------------
(* C14 *)

RECURSIVE InOrderOfOccurrence(_, _)
\* The markdown image targets and the bare image URLs of s in the order in
\* which they occur in s, the scan starting at index i.
InOrderOfOccurrence(s, i) ==
    LET j == Least({k \in i..Len(s) : ImageAt(s, k) \/ BareAt(s, k)}) IN
    IF j = 0 THEN <<>>
    ELSE IF ImageAt(s, j)
         THEN <<strip(ImageTarget(s, j))>> \o InOrderOfOccurrence(s, ImageParen(s, j) + 1)
         ELSE (IF is_image_url(SubSeq(s, j, BareLast(s, j)))
               THEN <<SubSeq(s, j, BareLast(s, j))>>
               ELSE <<>>) \o InOrderOfOccurrence(s, BareLast(s, j) + 1)

\* C14: the returned list holds every markdown image target and every bare
\* image URL in order of occurrence; the cleaned text holds no markdown image
\* and no occurrence of a URL of the list; it has no run of two spaces and no
\* leading or trailing whitespace.
C14_ImageSeparation ==
    (mode = "images" /\ pc = "returned") =>
        /\ out.images = InOrderOfOccurrence(arg, 1)
        /\ md_images(out.content, 1) = <<>>
        /\ \A k \in DOMAIN out.images : ~contains(out.images[k], out.content)
        /\ ~contains("  ", out.content)
        /\ strip(out.content) = out.content

---------------------------------------------------------------------------
(* C15 *)

\* What a crawl of the seed alone leaves: the seed is the only URL visited
\* and fetched, it is fetched once at depth 0, no link is followed, and once
\* the crawl has returned the seed is either stored or failed.
SeedOnly ==
    /\ visited \subseteq {start_url}
    /\ followed = {}
    /\ websites \subseteq {start_url}
    /\ failed \subseteq {start_url}
    /\ \A i \in DOMAIN log : i = 1 /\ log[i].url = start_url /\ log[i].depth = 0
    /\ \A i \in DOMAIN stack : i = 1 /\ stack[i].stage = "enter"
    /\ (pc = "returned" /\ SupportedScheme(start_url)) =>
         /\ Len(log) = 1
         /\ websites \cup failed = {start_url}

\* C15: a recursive crawl with recursive = FALSE, whatever max_depth is, and
\* one with recursive = TRUE and max_depth = 0 both are crawls of the seed
\* alone.
C15_NonRecursiveIsDepthZero ==
    (mode = "rec" /\ (~recursive \/ max_depth = 0)) => SeedOnly

\* A crawl with recursive = FALSE and max_depth = 2 of a seed that has links
\* has returned with the seed's record alone.
C15_Witness ==
    /\ mode = "rec"
    /\ ~recursive
    /\ max_depth = MaxDepthBound
    /\ pc = "returned"
    /\ linked_urls(start_url) # {}
    /\ websites = {start_url}
    /\ visited = {start_url}

---------------------------------------------------------------------------
(* C16 *)

\* C16: whatever earlier runs stored, the Scrape table holds one row per seed
\* URL and the Website table one row per (url, scrape); every row that was
\* there before the run is still there under its primary key; and a page
\* stored in this run has exactly one row, holding the new content and images.
C16_IdempotentUpsert ==
    mode = "rec" =>
        /\ \A a, b \in scrape_rows : (a.url = b.url \/ a.id = b.id) => a = b
        /\ \A a, b \in website_rows :
              ((a.url = b.url /\ a.scrape = b.scrape) \/ a.id = b.id) => a = b
        /\ PriorDatabase(arg, start_url).scrapes \subseteq scrape_rows
        /\ \A p \in PriorDatabase(arg, start_url).websites :
              \E r \in website_rows :
                 /\ r.id = p.id /\ r.url = p.url /\ r.scrape = p.scrape
                 /\ r.created_on = p.created_on
        /\ \A url \in websites :
              \E r \in website_rows :
                 /\ website_matches(website_rows, url, scrape) = {r}
                 /\ r.content = "new" /\ r.images = "new" /\ r.updated_on = 1

\* A second run of the same seed has returned: the seed's row of the earlier
\* run holds the new content, and a page the earlier run had not stored has
\* a row of its own.
C16_Witness ==
    /\ mode = "rec"
    /\ arg = "same_seed"
    /\ pc = "returned"
    /\ Cardinality(scrape_rows) = 1
    /\ \E r \in website_rows :
         r.url = start_url /\ r.created_on = 0 /\ r.updated_on = 1 /\ r.content = "new"
    /\ \E r \in website_rows : r.created_on = 1 /\ r.scrape = scrape

---------------------------------------------------------------------------
(* C17 *)

\* C17 as stated: the static fetch returns markup only for a 2xx response.
C17_OnlySuccessReturns ==
    (mode = "fetch" /\ pc = "returned") =>
        (arg.kind = "response" /\ 200 <= arg.status /\ arg.status <= 299)

\* C17: the static fetch raises for a transport failure and for a response
\* with a 4xx or 5xx status, the error being the transport's or the HTTPError
\* of that response; it returns the markup of every other response, 2xx or
\* not.
C17_ErrorStatusRaises ==
    mode = "fetch" =>
        /\ pc = "returned" =>
             /\ arg.kind = "response"
             /\ ~(400 <= arg.status /\ arg.status <= 599)
             /\ out = "markup"
        /\ pc = "raised" =>
             /\ out = "none"
             /\ \/ arg.kind = "failure" /\ error = "ConnectionError"
                \/ /\ arg.kind = "response"
                   /\ 400 <= arg.status /\ arg.status <= 599
                   /\ error = "HTTPError"

\* The response had status 404 and the fetch has raised its HTTPError.
C17_Witness ==
    /\ mode = "fetch"
    /\ pc = "raised"
    /\ arg = [kind |-> "response", status |-> 404]
    /\ error = "HTTPError"

---------------------------------------------------------------------------
(* C18 *)

RECURSIVE Within(_)
\* The URLs whose shortest link distance from the seed is at most k.
Within(k) ==
    IF k = 0 THEN {start_url}
    ELSE Within(k - 1) \cup UNION {linked_urls(u) : u \in Within(k - 1)}

Fetched == {e.url : e \in Range(log)}

\* The entries the wave joined last owes the next wave.
Frontier ==
    UNION {IF current_batch[i][2] < max_depth
           THEN {<<l, current_batch[i][2] + 1>> :
                    l \in linked_urls(current_batch[i][1]) \ visited}
           ELSE {} : i \in DOMAIN current_batch}

\* C18: after a wave is joined, the frontier holds the links of its members
\* of depth d < max_depth that are not in visited, at depth d + 1, and
\* nothing else; every URL is fetched at a depth equal to its shortest link
\* distance from the seed; and a crawl that ended with every fetch succeeding
\* has fetched exactly the URLs at distance max_depth or less.
C18_FrontierAndCompleteness ==
    mode = "wave" =>
        /\ WaveJoined => Range(urls_to_process) = Frontier
        /\ \A e \in Range(log) :
              /\ e.url \in Within(e.depth)
              /\ e.depth > 0 => e.url \notin Within(e.depth - 1)
        /\ pc = "done" => Fetched = Within(max_depth)

\* On the site where page 3 is one link and also two links from the seed, the
\* crawl with max_depth = 2 has ended having fetched the four pages, page 3 at
\* depth 1 and page 4 at depth 2.
C18_Witness ==
    /\ mode = "wave"
    /\ pc = "done"
    /\ site = Shortcut
    /\ start_url = Url(1)
    /\ max_depth = 2
    /\ Fetched = {Url(1), Url(2), Url(3), Url(4)}
    /\ \E e \in Range(log) : e.url = Url(3) /\ e.depth = 1
    /\ \E e \in Range(log) : e.url = Url(4) /\ e.depth = 2

---------------------------------------------------------------------------
(* C19 *)

\* A step of a fetch unit: a task ran or its retry countdown ran down.
UnitStep == unit' # unit /\ pc' = pc

\* C19: in the wave crawl visited changes only in the batch-build step, which
\* adds the URLs of the batch it dispatches; a step of a fetch unit, retries
\* included, changes neither visited nor the frontier; and every dispatched
\* URL is in visited.
C19_VisitedOnlyAtBatchBuild ==
    /\ [][mode = "wave" =>
            /\ visited' # visited =>
                 /\ pc = "loop" /\ pc' \in {"get", "done"}
                 /\ visited' = visited \cup {current_batch'[i][1] : i \in DOMAIN current_batch'}
            /\ UnitStep => (visited' = visited /\ urls_to_process' = urls_to_process)]_vars
    /\ [](mode = "wave" =>
            /\ Fetched \subseteq visited
            /\ \A i \in DOMAIN unit : current_batch[i][1] \in visited)

\* A task of the second wave is waiting for a retry; the URLs of both waves
\* are in visited.
C19_Witness ==
    /\ mode = "wave"
    /\ pc = "get"
    /\ wave = 2
    /\ \E i \in DOMAIN unit : unit[i].retries >= 1
    /\ Cardinality(visited) >= 2
    /\ Fetched = visited

---------------------------------------------------------------------------
(* C20 *)

\* C20: every entry of the k-th wave (k from 0) has depth k, in the batch and
\* in the frontier built for the next wave; the depths of the dispatched
\* entries never decrease; and no URL is dispatched twice, so it has one depth.
C20_WaveDepth ==
    mode = "wave" =>
        /\ \A e \in Range(log) : e.depth = e.wave
        /\ pc = "loop" =>
              \A i \in DOMAIN urls_to_process : urls_to_process[i][2] = wave
        /\ pc \in {"get", "raised"} =>
              \A i \in DOMAIN current_batch : current_batch[i][2] = wave - 1
        /\ \A i, j \in DOMAIN log : i <= j => log[i].depth <= log[j].depth
        /\ \A i, j \in DOMAIN log : log[i].url = log[j].url => i = j

\* Three waves have been dispatched, the last at depth 2, on a site whose
\* page 3 is linked from the pages of two waves.
C20_Witness ==
    /\ mode = "wave"
    /\ pc = "done"
    /\ site = Shortcut
    /\ wave = 3
    /\ \E e \in Range(log) : e.depth = 2 /\ e.wave = 2
    /\ \E e \in Range(log) : e.url = Url(3) /\ e.depth = 1

---------------------------------------------------------------------------
(* C21 *)

\* The image extensions, as the claim lists them.
ImageSuffixes ==
    {".jpg", ".jpeg", ".png", ".gif", ".webp", ".svg", ".bmp", ".ico", ".tiff", ".avif"}

\* The part of a URL before its query string.
WithoutQuery(url) ==
    LET q == FirstOf(url, {"?"}, 1) IN IF q = 0 THEN url ELSE SubSeq(url, 1, q - 1)

\* C21: no URL that extract_urls_from_markdown returns ends, once its query
\* string is stripped and it is lower-cased, in an image extension.
C21_NoImageUrlReturned ==
    (mode = "links" /\ pc = "returned") =>
        \A u \in out : \A ext \in ImageSuffixes : ~endswith(lower(WithoutQuery(u)), ext)

\* A page with a '/'-relative image link, a bare-relative image link and a
\* bare image URL in upper case gave no URL at all, and a page with an
\* absolute image link beside a page link gave the page link alone.
C21_Witness ==
    /\ mode = "links"
    /\ pc = "returned"
    /\ arg.base = "https://example.com/a/b"
    /\ \/ arg.content = JoinPieces(LinkPieces, {12, 13, 14}, 1) /\ out = {}
       \/ arg.content = JoinPieces(LinkPieces, {1, 9}, 1) /\ out = {"https://example.com/x"}

---------------------------------------------------------------------------
(* C22 *)

\* Every call of extract_url_content of this crawl ran to its return
\* statement: no fetch, conversion, store or link extraction raised.
AllFetchesSucceeded == failed = {} /\ link_failed = {}

\* C22: a recursive crawl by extract_url_content in which every fetch
\* succeeded has stored, when scrape_website returns, exactly the URLs whose
\* shortest link distance from the seed is max_depth or less, which is the
\* set extract_website_recursive fetches, whatever the order in which each
\* page's set of links is iterated.
C22_RecursiveEqualsWave ==
    (/\ mode = "rec"
     /\ pc = "returned"
     /\ recursive
     /\ SupportedScheme(start_url)
     /\ AllFetchesSucceeded) => websites = Within(max_depth)

---------------------------------------------------------------------------
(* C24 *)

\* C24: when two exports of the same seed URL have both returned, whatever
\* the interleaving of their existence checks and their writes, they wrote
\* two different paths and the file of each is in the directory.
C24_ConcurrentExportsDistinct ==
    (/\ mode = "export"
     /\ \A c \in Callers : exporter[c].pc = "done") =>
        /\ exporter["first"].path # exporter["second"].path
        /\ \A c \in Callers : files[exporter[c].path] = c

---------------------------------------------------------------------------
(* C25 *)

\* C25: when scrape_website has returned, the Website count it reports is
\* the number of pages this run fetched and stored, and the records its
\* save_json branch exported are the records of exactly those pages, each
\* with the content this run stored, whatever earlier runs left in the
\* database.
C25_ExportIsThisRun ==
    (mode = "rec" /\ pc = "returned") =>
        /\ out.website_count = Cardinality(websites)
        /\ out.save_json =>
              out.results = {[url |-> u, content |-> "new", images |-> "new"] : u \in websites}

---------------------------------------------------------------------------
(* C26 *)

\* The run with include_images and the run without it.
WithImages == out[TRUE]

WithoutImages == out[FALSE]

\* C26: two runs of the crawl over the same pages, max_depth and fetch
\* outcomes that differ in include_images alone dispatch the same URLs in
\* the same waves, discover the same links on every page both have
\* processed, and once both have ended they ended the same way with results
\* for the same URLs; without include_images every result has no images.
C26_FlagDoesNotSteer ==
    mode = "pair" =>
        /\ IsPrefix(WithImages.waves, WithoutImages.waves)
              \/ IsPrefix(WithoutImages.waves, WithImages.waves)
        /\ \A a \in WithImages.links : \A b \in WithoutImages.links :
              a[1] = b[1] => a[2] = b[2]
        /\ \A r \in WithoutImages.results : r.images = <<>>
        /\ (WithImages.pc # "loop" /\ WithoutImages.pc # "loop") =>
              /\ WithImages.pc = WithoutImages.pc
              /\ WithImages.waves = WithoutImages.waves
              /\ WithImages.links = WithoutImages.links
              /\ {r.url : r \in WithImages.results} = {r.url : r \in WithoutImages.results}

\* Both runs have returned after three waves over a site whose seed holds its
\* only link under image syntax: with include_images the target is listed as
\* an image of the seed and cut from its content, yet the page is fetched in
\* the second wave of both runs, and the results of the two runs differ.
C26_Witness ==
    /\ mode = "pair"
    /\ arg.kinds[1] = "shot"
    /\ WithImages.pc = "done" /\ WithoutImages.pc = "done"
    /\ Len(WithImages.waves) = 3
    /\ WithImages.waves[2] = {PageUrl(2)}
    /\ [url |-> PageUrl(1), content |-> "caption", images |-> <<"/p2">>] \in WithImages.results
    /\ [url |-> PageUrl(1), content |-> "![shot](/p2) caption", images |-> <<>>]
          \in WithoutImages.results

---------------------------------------------------------------------------
(* C23 *)

\* The worker w is held by a crawl task that waits in get() for its group.
Blocked(w) ==
    /\ worker[w].kind = "crawl"
    /\ crawl[worker[w].crawl].pc = "get"
    /\ arg.join = "blocks"
    /\ ~group_done(worker[w].crawl)

\* Every worker is blocked while a unit of a batch is still on the queue.
Starved ==
    /\ \A w \in DOMAIN worker : Blocked(w)
    /\ \E i \in DOMAIN queue : queue[i].kind = "unit"

AllUnitsExecuted == \A c \in DOMAIN crawl : crawl[c].executed = crawl[c].dispatched

AllCrawlsReturned == \A c \in DOMAIN crawl : crawl[c].pc = "returned"

\* C23: with the crawl tasks and their units on one pool of workers, no
\* state has every worker blocked in get() while a unit of a batch is still
\* queued, every unit that was dispatched is executed in the end, and every
\* crawl returns in the end.
C23_PoolNeverStarves ==
    /\ [](mode = "pool" => ~Starved)
    /\ <>[](mode = "pool" => AllUnitsExecuted)
    /\ <>(mode = "pool" => AllCrawlsReturned)

=============================================================================
